---- MODULE Spec2Model ----
(***************************************************************************)
(* A model of jucardi/go-streams (generic version): the list container     *)
(* (arrayCollection on CollectionBase), the set container, the index based *)
(* iterators and the Stream pipeline engine with its sequential and        *)
(* parallel execution; the map-backed container (mapCollection), and two   *)
(* goroutines calling into one list or running two pipelines over it.      *)
(*                                                                         *)
(* Elements are the integers 0..MaxElem; 0 is the zero value of T.         *)
(* A container value is a record [kind, seq, set, ref]:                    *)
(*   kind = "list": seq is the backing array; ref tells whose array it is: *)
(*          "source" - the container IS the stream's source container,     *)
(*          "shared" - another list object on the source's backing array,  *)
(*          "fresh"  - a list with an array of its own;                    *)
(*   kind = "set" : set is the key set of the Go map (no order).           *)
(***************************************************************************)
EXTENDS Integers, Sequences, FiniteSets, TLC

\* ------------------------------------------------------------------ bounds
MaxElem == 2
MaxLen == 2
MaxFilters == 2
MaxSorts == 2
MaxThreads == 2
NumCPU == 1
MaxItems == 2

Elem == 0..MaxElem
ZeroT == 0

VARIABLES
  arr,        \* arrayCollection.arr of the source list (and the raw array it wraps)
  set,        \* CollectionBaseNoIterator.set of the source list: the memoised ISet
  m,          \* set.m of a stand-alone set container
  filters,    \* Stream.filters
  sorts,      \* Stream.sorts
  distinct,   \* Stream.distinct
  threads,    \* Stream.threads
  current,    \* Stream.current
  pc,         \* position of the caller / of the running terminal call
  workers,    \* goroutines of parallelProcessHandler: index -> "run" | "sent"
  chan,       \* the channel c of parallelProcessHandler
  ret,        \* the list ret of parallelProcessHandler
  recv,       \* number of results received from c
  filtered,   \* local of process: the container handed to Stream.sort
  processed,  \* the container process() returned to the terminal operation
  pfw,        \* goroutines of ParallelForEach
  fcalls,     \* how often the callback of ParallelForEach ran on each value
  call,       \* the operation that returned last, with its arguments
  retval,     \* what it returned
  cb,         \* the callbacks a branch helper (thenWrapper) has invoked, in order
  evals,      \* how often the running terminal call invoked a filter predicate
  colM,       \* mapCollection.m of a map-backed container: key -> value
  keys,       \* mapCollection.keys: the auxiliary key list
  currentIndex, \* IndexBasedIterator.currentIndex of an iterator over arr
  stopAt,     \* IndexBasedIterator.stopAt
  reader,     \* a goroutine inside Contains / Distinct of the source list
  mutator,    \* a goroutine inside Add / RemoveAt / Clear of the source list
  pipelines   \* two streams over the source list, run by two goroutines

\* the state of the map-backed container and of the stand-alone iterator
mapVars == <<colM, keys>>

iterVars == <<currentIndex, stopAt>>

concVars == <<reader, mutator, pipelines>>

others == <<mapVars, iterVars, concVars>>

vars == <<arr, set, m, filters, sorts, distinct, threads, current, pc, workers,
          chan, ret, recv, filtered, processed, pfw, fcalls, call, retval,
          cb, evals, others>>

\* ---------------------------------------------------------------- helpers
Range(s) == {s[k] : k \in 1..Len(s)}

Min(a, b) == IF a < b THEN a ELSE b

SeqsUpTo(S, n) == UNION {[1..k -> S] : k \in 0..n}

Occ(s, v) == Cardinality({k \in 1..Len(s) : s[k] = v})

SameBag(s, t) == \A v \in Range(s) \cup Range(t) : Occ(s, v) = Occ(t, v)

RemoveIdx(s, k) == SubSeq(s, 1, k - 1) \o SubSeq(s, k + 1, Len(s))

RemoveOne(s, v) == RemoveIdx(s, CHOOSE k \in 1..Len(s) : s[k] = v)

\* every order in which a Go map with key set S can be ranged over
RECURSIVE MapOrders(_)
MapOrders(S) ==
  IF S = {} THEN {<<>>}
  ELSE UNION {{<<v>> \o t : t \in MapOrders(S \ {v})} : v \in S}

CeilDiv(a, b) == (a + b - 1) \div b

NilCol == [kind |-> "nil", seq |-> <<>>, set |-> {}, ref |-> "none"]
ListCol(s, r) == [kind |-> "list", seq |-> s, set |-> {}, ref |-> r]
SetCol(S) == [kind |-> "set", seq |-> <<>>, set |-> S, ref |-> "fresh"]

ColLen(c) == IF c.kind = "set" THEN Cardinality(c.set) ELSE Len(c.seq)

\* the arrays ToArray() can return for a container
ColArrays(c) == IF c.kind = "set" THEN MapOrders(c.set) ELSE {c.seq}

\* the memoised set of a list: nil, or an ISet holding elems
NilSet == [valid |-> FALSE, elems |-> {}]
MemoSet(S) == [valid |-> TRUE, elems |-> S]

NoCall == [op |-> "none", i |-> 0, d |-> <<>>, flag |-> FALSE, items |-> <<>>, p |-> "none"]
MkCall(o, i, d, f, it, p) == [op |-> o, i |-> i, d |-> d, flag |-> f, items |-> it, p |-> p]
NoRet == [val |-> 0, arr |-> <<>>, b |-> FALSE, panic |-> FALSE, col |-> NilCol]
RetVal(v) == [NoRet EXCEPT !.val = v]
RetArr(a) == [NoRet EXCEPT !.arr = a]
RetBool(b) == [NoRet EXCEPT !.b = b]
RetPanic == [NoRet EXCEPT !.panic = TRUE]
RetCol(c) == [NoRet EXCEPT !.col = c]

\* ----------------------------------------------- predicates and comparators
Preds == {"odd", "pos"}
Holds(p, x) == IF p = "odd" THEN x % 2 = 1 ELSE x > 0

Cmps == {"parity", "value"}
Cmp(c, x, y) == IF c = "parity" THEN (x % 2) - (y % 2) ELSE x - y

FilterStages == [neg : BOOLEAN, p : Preds]
SortStages == [fn : Cmps, desc : BOOLEAN]

ApplyFilterNoNegation(f, x) == Holds(f.p, x)

\* a registered filter: Filter stores f, Except stores func(x) { return !f(x) }
ApplyFilter(f, x) == IF f.neg THEN ~Holds(f.p, x) ELSE Holds(f.p, x)

\* ------------------------------------------------------------- iterators
HasNext(len, idx) == len - 1 >= idx

\* collectionIterator.Current / arrayIterator.Current for idx >= 0
Current(a, idx) == IF idx >= Len(a) THEN ZeroT ELSE a[idx + 1]

\* the values x taken by the loop
\*   for x := it.Current(); it.HasNext() && i < end; x = it.Next() { i++ ... }
\* of an iterator over array a that stands at idx
RECURSIVE IterRange(_, _, _, _)
IterRange(a, idx, i, end) ==
  IF HasNext(Len(a), idx) /\ i < end
  THEN <<Current(a, idx)>> \o IterRange(a, idx + 1, i + 1, end)
  ELSE <<>>

\* the values ForEachRemaining hands to f, iterator at idx, stop bound stop
RECURSIVE ForEachRemaining(_, _, _)
ForEachRemaining(a, idx, stop) ==
  IF HasNext(Len(a), idx) /\ (stop <= 0 \/ stop >= idx)
  THEN <<Current(a, idx)>> \o ForEachRemaining(a, idx + 1, stop)
  ELSE <<>>

\* ------------------------------------------------------------ the stream
getCores(t) == IF t = <<>> THEN 1 ELSE IF t[1] <= 0 THEN NumCPU ELSE t[1]

\* the inner loop of iterHandler: match is the conjunction of the filters
Match(x) == \A k \in 1..Len(filters) : ApplyFilter(filters[k], x)

\* how many predicates the loop over s.filters invokes on x: it breaks at
\* the first one that fails
filterEvals(x) ==
  LET fails == {k \in 1..Len(filters) : ~ApplyFilter(filters[k], x)}
  IN  IF fails = {} THEN Len(filters)
      ELSE CHOOSE k \in fails : \A j \in fails : k <= j

RECURSIVE SumEvals(_)
SumEvals(a) == IF a = <<>> THEN 0 ELSE filterEvals(Head(a)) + SumEvals(Tail(a))

\* the predicate invocations of iterHandler(iterable, start, end)
iterEvals(start, end) ==
  IF Len(filters) = 0 /\ ~distinct THEN 0
  ELSE SumEvals(IterRange(arr, start, start, end))

iterHandler(start, end) ==
  IF Len(filters) = 0 /\ ~distinct
  THEN ListCol(arr, "source")
  ELSE LET kept == SelectSeq(IterRange(arr, start, start, end), Match)
       IN  IF distinct THEN SetCol(Range(kept)) ELSE ListCol(kept, "fresh")

ChainValFirstOnly(ss, k, x, y) ==
  IF k > Len(ss) THEN 0 ELSE Cmp(ss[k].fn, x, y)

\* sorter.makeLessFunc on the chain ss: the first comparator that does not
\* answer 0 decides, negated when its stage is descending
RECURSIVE ChainVal(_, _, _, _)
ChainVal(ss, k, x, y) ==
  IF k > Len(ss) THEN 0
  ELSE LET v == Cmp(ss[k].fn, x, y)
           w == IF ss[k].desc THEN v * (-1) ELSE v
       IN  IF w # 0 THEN w ELSE ChainVal(ss, k + 1, x, y)

makeLessFunc(ss, x, y) == ChainVal(ss, 1, x, y) < 0

\* sort.Slice is not stable: every arrangement of a in which no element is
\* less than an earlier one is a possible outcome
RECURSIVE SortSlice(_, _)
SortSlice(ss, a) ==
  IF a = <<>> THEN {<<>>}
  ELSE LET mins == {v \in Range(a) : \A w \in Range(a) : ~makeLessFunc(ss, w, v)}
       IN  UNION {{<<v>> \o t : t \in SortSlice(ss, RemoveOne(a, v))} : v \in mins}

\* Stream.sort on container c: the possible pairs <<result, source array>>.
\* The array of a list is sorted in place, so sorting the source container
\* (or a list on its array) rearranges the source array.
SortResults(c) ==
  IF Len(sorts) = 0 THEN {<<c, arr>>}
  ELSE IF c.kind = "set"
       THEN {<<ListCol(s, "fresh"), arr>> :
               s \in UNION {SortSlice(sorts, a) : a \in MapOrders(c.set)}}
       ELSE IF c.ref = "fresh"
            THEN {<<ListCol(s, "fresh"), arr>> : s \in SortSlice(sorts, c.seq)}
            ELSE {<<ListCol(s, "shared"), s>> : s \in SortSlice(sorts, c.seq)}

\* no terminal operation has run: the locals of the calls are empty
NoCalls ==
  /\ set = NilSet
  /\ m = {}
  /\ distinct = FALSE
  /\ threads = 1
  /\ current = NilCol
  /\ pc = "build"
  /\ workers = <<>>
  /\ chan = <<>>
  /\ ret = <<>>
  /\ recv = 0
  /\ filtered = NilCol
  /\ processed = NilCol
  /\ pfw = <<>>
  /\ fcalls = [v \in Elem |-> 0]
  /\ call = NoCall
  /\ retval = NoRet
  /\ cb = <<>>
  /\ evals = 0
  /\ colM = [k \in {} |-> 0]
  /\ keys = <<>>
  /\ currentIndex = 0
  /\ stopAt = 0
  /\ reader = [pc |-> "idle", op |-> "none", x |-> 0, local |-> {}, b |-> FALSE]
  /\ mutator = [pc |-> "idle", op |-> "none", x |-> 0]
  /\ pipelines = <<>>

\* FromArray(array): a stream over a list that wraps any array
Init ==
  /\ arr \in SeqsUpTo(Elem, MaxLen)
  /\ filters = <<>>
  /\ sorts = <<>>
  /\ NoCalls

\* ------------------------------------------- intermediate operations
Filter(p) ==
  /\ pc = "build"
  /\ Len(filters) < MaxFilters
  /\ filters' = Append(filters, [neg |-> FALSE, p |-> p])
  /\ UNCHANGED <<others, arr, set, m, sorts, distinct, threads, current, pc, workers,
                 chan, ret, recv, filtered, processed, pfw, fcalls, call, retval,
                 cb, evals>>

Except(p) ==
  /\ pc = "build"
  /\ Len(filters) < MaxFilters
  /\ filters' = Append(filters, [neg |-> TRUE, p |-> p])
  /\ UNCHANGED <<others, arr, set, m, sorts, distinct, threads, current, pc, workers,
                 chan, ret, recv, filtered, processed, pfw, fcalls, call, retval,
                 cb, evals>>

Sort(c, d) ==
  /\ pc = "build"
  /\ Len(sorts) < MaxSorts
  /\ sorts' = Append(sorts, [fn |-> c, desc |-> d])
  /\ UNCHANGED <<others, arr, set, m, filters, distinct, threads, current, pc, workers,
                 chan, ret, recv, filtered, processed, pfw, fcalls, call, retval,
                 cb, evals>>

Distinct ==
  /\ pc = "build"
  /\ distinct' = TRUE
  /\ UNCHANGED <<others, arr, set, m, filters, sorts, threads, current, pc, workers,
                 chan, ret, recv, filtered, processed, pfw, fcalls, call, retval,
                 cb, evals>>

SetThreads(n) ==
  /\ pc = "build"
  /\ threads' = getCores(<<n>>)
  /\ UNCHANGED <<others, arr, set, m, filters, sorts, distinct, current, pc, workers,
                 chan, ret, recv, filtered, processed, pfw, fcalls, call, retval,
                 cb, evals>>

\* ------------------------------------------------ Stream.process
\* a terminal operation is entered: it calls s.process()
Call ==
  /\ pc \in {"build", "idle"}
  /\ \A i \in DOMAIN pfw : pfw[i].st = "done"
  /\ pc' = "process"
  /\ pfw' = <<>>
  /\ fcalls' = [v \in Elem |-> 0]
  /\ cb' = <<>>
  /\ evals' = 0
  /\ call' = NoCall
  /\ retval' = NoRet
  /\ UNCHANGED <<others, arr, set, m, filters, sorts, distinct, threads, current,
                 workers, chan, ret, recv, filtered, processed>>

processCached ==
  /\ pc = "process"
  /\ threads = 1
  /\ IF current.kind # "nil"
     THEN /\ processed' = current
          /\ UNCHANGED <<others, filtered, current, arr, evals>>
     ELSE /\ LET f == iterHandler(0, Len(arr))
             IN  \E r \in SortResults(f) :
                   /\ filtered' = f
                   /\ processed' = r[1]
                   /\ current' = r[1]
                   /\ arr' = r[2]
          /\ evals' = evals + iterEvals(0, Len(arr))
  /\ pc' = "ready"
  /\ UNCHANGED <<others, set, m, filters, sorts, distinct, threads, workers, chan, ret,
                 recv, pfw, fcalls, call, retval, cb>>

\* process with threads = 1: filter, then sort, then s.current = iterable
process ==
  /\ pc = "process"
  /\ threads = 1
  /\ LET f == iterHandler(0, Len(arr))
     IN  \E r \in SortResults(f) :
           /\ filtered' = f
           /\ processed' = r[1]
           /\ current' = r[1]
           /\ arr' = r[2]
  /\ evals' = evals + iterEvals(0, Len(arr))
  /\ pc' = "ready"
  /\ UNCHANGED <<others, set, m, filters, sorts, distinct, threads, workers, chan, ret,
                 recv, pfw, fcalls, call, retval, cb>>

\* parallelProcessHandler up to the go statements
parallelProcessHandler ==
  /\ pc = "process"
  /\ threads # 1
  /\ LET cores == Min(getCores(<<threads>>), Len(arr))
     IN  workers' = [i \in 1..cores |-> "run"]
  /\ chan' = <<>>
  /\ ret' = <<>>
  /\ recv' = 0
  /\ pc' = "collect"
  /\ UNCHANGED <<others, arr, set, m, filters, sorts, distinct, threads, current,
                 filtered, processed, pfw, fcalls, call, retval,
                 cb, evals>>

sliceSize(len, cores) == CeilDiv(len, cores)

\* goroutine i-1: result <- s.iterHandler(iterable, start, end)
worker(i) ==
  /\ pc = "collect"
  /\ i \in DOMAIN workers
  /\ workers[i] = "run"
  /\ LET sz == sliceSize(Len(arr), Len(workers))
     IN  /\ chan' = Append(chan, iterHandler((i - 1) * sz, i * sz))
         /\ evals' = evals + iterEvals((i - 1) * sz, i * sz)
  /\ workers' = [workers EXCEPT ![i] = "sent"]
  /\ UNCHANGED <<others, arr, set, m, filters, sorts, distinct, threads, current, pc,
                 ret, recv, filtered, processed, pfw, fcalls, call, retval, cb>>

\* the orders in which container c hands its elements to ForEach
ForEachOrders(c) ==
  IF c.kind = "set" THEN MapOrders(c.set)
  ELSE {ForEachRemaining(c.seq, 0, 0)}

\* one round of the receive loop: (<-c).ForEach(ret.Add)
collect ==
  /\ pc = "collect"
  /\ recv < Len(workers)
  /\ chan # <<>>
  /\ \E a \in ForEachOrders(Head(chan)) : ret' = ret \o a
  /\ chan' = Tail(chan)
  /\ recv' = recv + 1
  /\ UNCHANGED <<others, arr, set, m, filters, sorts, distinct, threads, current, pc,
                 workers, filtered, processed, pfw, fcalls, call, retval,
                 cb, evals>>

\* parallelProcess after the handler returned: sort, no s.current
parallelProcess ==
  /\ pc = "collect"
  /\ recv = Len(workers)
  /\ LET f == ListCol(ret, "fresh")
     IN  \E r \in SortResults(f) :
           /\ filtered' = f
           /\ processed' = r[1]
           /\ arr' = r[2]
  /\ workers' = <<>>
  /\ chan' = <<>>
  /\ ret' = <<>>
  /\ recv' = 0
  /\ pc' = "ready"
  /\ UNCHANGED <<others, set, m, filters, sorts, distinct, threads, current, pfw,
                 fcalls, call, retval,
                 cb, evals>>

\* ------------------------------------------------ terminal operations
\* the variadic defaultValue: absent, or one value
Defaults == {<<>>, <<MaxElem>>}

Returns(c, r) ==
  /\ pc = "ready"
  /\ call' = c
  /\ retval' = r
  /\ pc' = "returned"
  /\ UNCHANGED <<others, arr, set, m, filters, sorts, distinct, threads, current,
                 workers, chan, ret, recv, filtered, processed, pfw, fcalls,
                 cb, evals>>

ToArray ==
  \E a \in ColArrays(processed) :
    Returns(MkCall("ToArray", 0, <<>>, FALSE, <<>>, "none"), RetArr(a))

Count ==
  Returns(MkCall("Count", 0, <<>>, FALSE, <<>>, "none"), RetVal(ColLen(processed)))

\* the value of At(index, d) when the iterator of the result runs over a
AtValue(c, a, index, d) ==
  IF c.kind = "set" /\ index < 0 THEN RetPanic
  ELSE LET v == IF index < 0 THEN ZeroT ELSE Current(a, index)
       IN  IF v = ZeroT /\ Len(d) > 0 THEN RetVal(d[1]) ELSE RetVal(v)

At(index, d) ==
  \E a \in ColArrays(processed) :
    Returns(MkCall("At", index, d, FALSE, <<>>, "none"),
            AtValue(processed, a, index, d))

First(d) ==
  \E a \in ColArrays(processed) :
    Returns(MkCall("First", 0, d, FALSE, <<>>, "none"),
            AtValue(processed, a, 0, d))

AtReverseValue(c, a, pos, d) ==
  LET i == ColLen(c) - 1 - pos
      v == IF i >= 0 THEN Current(a, i) ELSE ZeroT
  IN  IF v = ZeroT /\ Len(d) > 0 THEN RetVal(d[1]) ELSE RetVal(v)

Last(d) ==
  \E a \in ColArrays(processed) :
    Returns(MkCall("Last", 0, d, FALSE, <<>>, "none"),
            AtReverseValue(processed, a, 0, d))

ForEach ==
  \E a \in ColArrays(processed) :
    Returns(MkCall("ForEach", 0, <<>>, FALSE, <<>>, "none"),
            RetArr(ForEachRemaining(a, 0, 0)))

\* ------------------------------------------------ ToDistinct
\* ToDistinct is entered: s.Distinct() sets the flag, then ToCollection()
\* calls s.process()
DistinctCall ==
  /\ pc \in {"build", "idle"}
  /\ \A i \in DOMAIN pfw : pfw[i].st = "done"
  /\ distinct' = TRUE
  /\ pc' = "process"
  /\ pfw' = <<>>
  /\ fcalls' = [v \in Elem |-> 0]
  /\ cb' = <<>>
  /\ evals' = 0
  /\ call' = NoCall
  /\ retval' = NoRet
  /\ UNCHANGED <<others, arr, set, m, filters, sorts, threads, current, workers, chan,
                 ret, recv, filtered, processed>>

\* the type assertion .(ISet[T]) on what process() returned
ToDistinct ==
  /\ distinct
  /\ Returns(MkCall("ToDistinct", 0, <<>>, FALSE, <<>>, "none"),
             IF processed.kind = "set" THEN RetCol(processed) ELSE RetPanic)

\* ------------------------------------------------ matching operations
\* the values that satisfy predicate p
Sat(p) == {x \in Elem : Holds(p, x)}

anyMatchLoopPlain(a, idx, i, end, S, negate) ==
  \E k \in (idx + 1)..Len(a) : a[k] \in S

\* the loop of anyMatch over the iterator of array a standing at idx, for a
\* predicate satisfied by the values in S; the loop never advances i
RECURSIVE anyMatchLoop(_, _, _, _, _, _)
anyMatchLoop(a, idx, i, end, S, negate) ==
  IF HasNext(Len(a), idx) /\ i < end
  THEN IF (Current(a, idx) \in S) # negate THEN TRUE
       ELSE anyMatchLoop(a, idx + 1, i, end, S, negate)
  ELSE FALSE

anyMatch(a, start, end, S, negate) == anyMatchLoop(a, start, start, end, S, negate)

IsEmpty ==
  Returns(MkCall("IsEmpty", 0, <<>>, FALSE, <<>>, "none"), RetBool(ColLen(processed) = 0))

AnyMatch(p) ==
  \E a \in ColArrays(processed) :
    Returns(MkCall("AnyMatch", 0, <<>>, FALSE, <<>>, p),
            RetBool(anyMatch(a, 0, Len(a), Sat(p), FALSE)))

AllMatch(p) ==
  \E a \in ColArrays(processed) :
    Returns(MkCall("AllMatch", 0, <<>>, FALSE, <<>>, p),
            RetBool(~anyMatch(a, 0, Len(a), Sat(p), TRUE)))

NotAllMatch(p) ==
  \E a \in ColArrays(processed) :
    Returns(MkCall("NotAllMatch", 0, <<>>, FALSE, <<>>, p),
            RetBool(~~anyMatch(a, 0, Len(a), Sat(p), TRUE)))

NoneMatch(p) ==
  \E a \in ColArrays(processed) :
    Returns(MkCall("NoneMatch", 0, <<>>, FALSE, <<>>, p),
            RetBool(~anyMatch(a, 0, Len(a), Sat(p), FALSE)))

\* Contains(value) is AnyMatch(func(val) { return value == val })
Contains(v) ==
  \E a \in ColArrays(processed) :
    Returns(MkCall("Contains", v, <<>>, FALSE, <<>>, "none"),
            RetBool(anyMatch(a, 0, Len(a), {v}, FALSE)))

\* ------------------------------------------------ branch helpers
MaxChain == 2

IfOps == {"IfEmpty", "IfAnyMatch", "IfAllMatch", "IfNoneMatch"}

\* &thenWrapper{conditionMet: b, stream: FromCollection(s.current)}
RetThen(b) == [NoRet EXCEPT !.b = b, !.col = current]

IfEmpty ==
  Returns(MkCall("IfEmpty", 0, <<>>, FALSE, <<>>, "none"), RetThen(ColLen(processed) = 0))

IfAnyMatch(p) ==
  \E a \in ColArrays(processed) :
    Returns(MkCall("IfAnyMatch", 0, <<>>, FALSE, <<>>, p),
            RetThen(anyMatch(a, 0, Len(a), Sat(p), FALSE)))

IfAllMatch(p) ==
  \E a \in ColArrays(processed) :
    Returns(MkCall("IfAllMatch", 0, <<>>, FALSE, <<>>, p),
            RetThen(~anyMatch(a, 0, Len(a), Sat(p), TRUE)))

IfNoneMatch(p) ==
  \E a \in ColArrays(processed) :
    Returns(MkCall("IfNoneMatch", 0, <<>>, FALSE, <<>>, p),
            RetThen(~anyMatch(a, 0, Len(a), Sat(p), FALSE)))

\* a call of method mth on the helper an If* operation returned: cb logs
\* the call and whether it invoked its callback; the helper itself is returned
ThenOp(mth, ran) ==
  /\ pc = "returned"
  /\ call.op \in IfOps
  /\ Len(cb) < MaxChain
  /\ cb' = Append(cb, [mth |-> mth, ran |-> ran])
  /\ UNCHANGED <<others, arr, set, m, filters, sorts, distinct, threads, current, pc,
                 workers, chan, ret, recv, filtered, processed, pfw, fcalls,
                 call, retval, evals>>

Then == ThenOp("Then", retval.b)

ElseNoNegation == ThenOp("Else", retval.b)

Else == ThenOp("Else", ~retval.b)

\* the terminal operation returns to its caller; its locals are gone
Return ==
  /\ pc = "returned"
  /\ pc' = "idle"
  /\ filtered' = NilCol
  /\ processed' = NilCol
  /\ call' = NoCall
  /\ retval' = NoRet
  /\ UNCHANGED <<others, arr, set, m, filters, sorts, distinct, threads, current,
                 workers, chan, ret, recv, pfw, fcalls,
                 cb, evals>>

\* ------------------------------------------------ ParallelForEach
\* ParallelForEach after s.process() returned, up to the go statements
ParallelForEach(t, skipWait) ==
  /\ pc = "ready"
  /\ LET len == ColLen(processed)
         cores == Min(getCores(<<t>>), len)
     IN  pfw' = [w \in 1..cores |->
                  [st |-> "new", col |-> processed, it |-> <<>>,
                   idx |-> (w - 1) * sliceSize(len, cores),
                   i |-> (w - 1) * sliceSize(len, cores),
                   end |-> w * sliceSize(len, cores)]]
  /\ call' = MkCall("ParallelForEach", t, <<>>, skipWait, <<>>, "none")
  /\ pc' = "pfe"
  /\ UNCHANGED <<others, arr, set, m, filters, sorts, distinct, threads, current,
                 workers, chan, ret, recv, filtered, processed, fcalls, retval,
                 cb, evals>>

\* goroutine w: iterator := iterable.Iterator(); iterator.Skip(start)
pfeIterator(w) ==
  /\ w \in DOMAIN pfw
  /\ pfw[w].st = "new"
  /\ \E a \in ColArrays(pfw[w].col) :
       pfw' = [pfw EXCEPT ![w].it = a, ![w].st = "loop"]
  /\ UNCHANGED <<others, arr, set, m, filters, sorts, distinct, threads, current, pc,
                 workers, chan, ret, recv, filtered, processed, fcalls, call,
                 retval,
                 cb, evals>>

\* goroutine w: one round of its loop, or wg.Done() when the loop ends
pfeWorker(w) ==
  /\ w \in DOMAIN pfw
  /\ pfw[w].st = "loop"
  /\ IF HasNext(Len(pfw[w].it), pfw[w].idx) /\ pfw[w].i < pfw[w].end
     THEN /\ fcalls' = [fcalls EXCEPT ![Current(pfw[w].it, pfw[w].idx)] = @ + 1]
          /\ pfw' = [pfw EXCEPT ![w].idx = @ + 1, ![w].i = @ + 1]
     ELSE /\ pfw' = [pfw EXCEPT ![w].st = "done"]
          /\ UNCHANGED fcalls
  /\ UNCHANGED <<others, arr, set, m, filters, sorts, distinct, threads, current, pc,
                 workers, chan, ret, recv, filtered, processed, call, retval,
                 cb, evals>>

\* wg.Wait() unless skipWait, then ParallelForEach returns
pfeWait ==
  /\ pc = "pfe"
  /\ call.flag \/ \A w \in DOMAIN pfw : pfw[w].st = "done"
  /\ retval' = NoRet
  /\ pc' = "returned"
  /\ UNCHANGED <<others, arr, set, m, filters, sorts, distinct, threads, current,
                 workers, chan, ret, recv, filtered, processed, pfw, fcalls, call,
                 cb, evals>>

\* ------------------------------------------------ the list container
MaxList == 3

Index(a, index) == IF index < 0 \/ index >= Len(a) THEN ZeroT ELSE a[index + 1]

\* append(c.arr[0:index], c.arr[index:]...), then overwrite index with the
\* last element and drop the last position
removeFast(a, index) ==
  LET b == SubSeq(a, 1, index) \o SubSeq(a, index + 1, Len(a))
      last == b[Len(b)]
  IN  SubSeq([b EXCEPT ![index + 1] = last], 1, Len(b) - 1)

\* c.arr = append(c.arr[0:index], c.arr[index:]...)
removeKeepOrder(a, index) == SubSeq(a, 1, index) \o SubSeq(a, index + 1, Len(a))

\* arrayCollection.RemoveAt on array a: <<new array, returned, modified() ran>>
RemoveAt(a, index, keepOrder) ==
  IF index < 0 \/ index >= Len(a) THEN <<a, FALSE, FALSE>>
  ELSE IF Len(keepOrder) > 0 /\ keepOrder[1]
       THEN <<removeKeepOrder(a, index), TRUE, TRUE>>
       ELSE <<removeFast(a, index), TRUE, TRUE>>

\* the loop of RemoveIf with condition "is in S", at position i:
\* <<final array, removed>>
RECURSIVE RemoveIfLoop(_, _, _, _, _, _)
RemoveIfLoop(a, S, keepOrder, count, i, removed) ==
  IF i < count - removed
  THEN LET val == Index(a, i)
           r == RemoveAt(a, i + removed, keepOrder)
       IN  IF val \in S /\ r[2]
           THEN RemoveIfLoop(r[1], S, keepOrder, count, i + 1, removed + 1)
           ELSE RemoveIfLoop(a, S, keepOrder, count, i + 1, removed)
  ELSE <<a, removed>>

\* RemoveIf: <<final array, returned, modified() ran>>
RemoveIf(a, S, keepOrder) ==
  LET r == RemoveIfLoop(a, S, keepOrder, Len(a), 0, 0)
  IN  <<r[1], r[2] > 0, r[2] > 0>>

\* Remove(items...) is RemoveIf(x is one of items) with the default policy
Remove(a, items) == RemoveIf(a, Range(items), <<>>)

\* AddFromIterator: ret = ret || c.Add(item) for each item the iterator
\* yields; Go does not evaluate c.Add(item) once ret is true
RECURSIVE AddFromIterator(_, _, _)
AddFromIterator(a, items, r) ==
  IF items = <<>> THEN <<a, r>>
  ELSE IF r THEN AddFromIterator(a, Tail(items), r)
       ELSE AddFromIterator(Append(a, Head(items)), Tail(items), TRUE)

\* RemoveFromIterator: ret = ret || c.Remove(item) for each item:
\* <<final array, ret, modified() ran>>
RECURSIVE RemoveFromIterator(_, _, _, _)
RemoveFromIterator(a, items, r, mod) ==
  IF items = <<>> THEN <<a, r, mod>>
  ELSE IF r THEN RemoveFromIterator(a, Tail(items), r, mod)
       ELSE LET x == Remove(a, <<Head(items)>>)
            IN  RemoveFromIterator(x[1], Tail(items), x[2], mod \/ x[3])

\* CollectionBaseNoIterator.Distinct: the memoised set, built when nil
ListDistinctSet == IF set.valid THEN set ELSE MemoSet(Range(arr))

ListOp(c, r, a, s) ==
  /\ pc \in {"build", "idle"}
  /\ arr' = a
  /\ set' = s
  /\ call' = c
  /\ retval' = r
  /\ UNCHANGED <<others, m, filters, sorts, distinct, threads, current, pc, workers,
                 chan, ret, recv, filtered, processed, pfw, fcalls,
                 cb, evals>>

ListAdd(x) ==
  /\ Len(arr) < MaxList
  /\ ListOp(MkCall("ListAdd", x, <<>>, FALSE, <<>>, "none"), RetBool(TRUE),
            Append(arr, x), NilSet)

ListRemoveAt(index, keepOrder) ==
  LET r == RemoveAt(arr, index, keepOrder)
  IN  ListOp(MkCall("ListRemoveAt", index, <<>>, keepOrder = <<TRUE>>, <<>>, "none"),
             RetBool(r[2]), r[1], IF r[3] THEN NilSet ELSE set)

ListRemoveIf(p, keepOrder) ==
  LET r == RemoveIf(arr, {x \in Elem : Holds(p, x)}, keepOrder)
  IN  ListOp(MkCall("ListRemoveIf", 0, <<>>, keepOrder = <<TRUE>>, <<>>, p),
             RetBool(r[2]), r[1], IF r[3] THEN NilSet ELSE set)

ListRemove(x) ==
  LET r == Remove(arr, <<x>>)
  IN  ListOp(MkCall("ListRemove", x, <<>>, FALSE, <<>>, "none"),
             RetBool(r[2]), r[1], IF r[3] THEN NilSet ELSE set)

ListContains(x) ==
  ListOp(MkCall("ListContains", x, <<>>, FALSE, <<>>, "none"),
         RetBool(x \in ListDistinctSet.elems), arr, ListDistinctSet)

ListClear ==
  ListOp(MkCall("ListClear", 0, <<>>, FALSE, <<>>, "none"), NoRet, <<>>, set)

ListAddFromIterator(items) ==
  /\ Len(arr) + Len(items) <= MaxList
  /\ LET r == AddFromIterator(arr, ForEachRemaining(items, 0, 0), FALSE)
     IN  ListOp(MkCall("ListAddFromIterator", 0, <<>>, FALSE, items, "none"),
                RetBool(r[2]), r[1], IF r[2] THEN NilSet ELSE set)

ListRemoveFromIterator(items) ==
  LET r == RemoveFromIterator(arr, ForEachRemaining(items, 0, 0), FALSE, FALSE)
  IN  ListOp(MkCall("ListRemoveFromIterator", 0, <<>>, FALSE, items, "none"),
             RetBool(r[2]), r[1], IF r[3] THEN NilSet ELSE set)

\* ------------------------------------------------ returned containers
\* ToCollection and ToIterable return what process() returned
ToCollection ==
  Returns(MkCall("ToCollection", 0, <<>>, FALSE, <<>>, "none"), RetCol(processed))

\* ToList returns the result itself when it is a list, else a new list on
\* the array of the result
ToList ==
  \E a \in ColArrays(processed) :
    Returns(MkCall("ToList", 0, <<>>, FALSE, <<>>, "none"),
            RetCol(IF processed.kind = "list" THEN processed ELSE ListCol(a, "fresh")))

\* the caller works on the container a terminal call returned: c, and what
\* the operation makes of the source array and of the source's memoised set
ResultOp(c, a, s) ==
  /\ pc = "returned"
  /\ call.op \in {"ToCollection", "ToList"}
  /\ retval' = RetCol(c)
  /\ arr' = a
  /\ set' = s
  /\ UNCHANGED <<others, m, filters, sorts, distinct, threads, current, pc, workers,
                 chan, ret, recv, filtered, processed, pfw, fcalls, call,
                 cb, evals>>

\* Add(x) on the returned container.  A list that IS the source appends to
\* the source; a list on the source's backing array writes into that array
\* when it is shorter than the source, else it appends behind the source's
\* elements or, when the capacity is used up, moves to an array of its own.
ResultAdd(x) ==
  LET c == retval.col
  IN  /\ ColLen(c) < MaxList
      /\ IF c.kind = "set" THEN ResultOp(SetCol(c.set \cup {x}), arr, set)
         ELSE IF c.ref = "source"
              THEN ResultOp(ListCol(Append(arr, x), "source"), Append(arr, x), NilSet)
         ELSE IF c.ref = "shared"
              THEN IF Len(c.seq) < Len(arr)
                   THEN ResultOp(ListCol(Append(c.seq, x), "shared"),
                                 [arr EXCEPT ![Len(c.seq) + 1] = x], set)
                   ELSE \E r \in {"shared", "fresh"} :
                          ResultOp(ListCol(Append(c.seq, x), r), arr, set)
         ELSE ResultOp(ListCol(Append(c.seq, x), "fresh"), arr, set)

\* RemoveAt(index) on the returned list: removeFast writes the last element
\* into position index of the backing array
ResultRemoveAt(index) ==
  LET c == retval.col
      r == RemoveAt(c.seq, index, <<>>)
  IN  /\ c.kind = "list"
      /\ r[2]
      /\ IF c.ref = "source" THEN ResultOp(ListCol(r[1], "source"), r[1], NilSet)
         ELSE IF c.ref = "shared"
              THEN ResultOp(ListCol(r[1], "shared"),
                            IF index < Len(arr)
                            THEN [arr EXCEPT ![index + 1] = c.seq[Len(c.seq)]]
                            ELSE arr,
                            set)
         ELSE ResultOp(ListCol(r[1], "fresh"), arr, set)

\* ------------------------------------------------ Map
\* the conversion functions handed to Map
Convs == {"succ", "parity"}
Conv(f, x) == IF f = "succ" THEN (x + 1) % (MaxElem + 1) ELSE x % 2

mapIteratorFirstOnly(a, idx, f) ==
  IF HasNext(Len(a), idx) THEN <<Conv(f, Current(a, idx))>> ELSE <<>>

\* mapIterator on an iterator over array a that stands at idx:
\*   for old := from.Current(); from.HasNext(); old = from.Next() { append f(old) }
RECURSIVE mapIterator(_, _, _)
mapIterator(a, idx, f) ==
  IF HasNext(Len(a), idx)
  THEN <<Conv(f, Current(a, idx))>> \o mapIterator(a, idx + 1, f)
  ELSE <<>>

\* Map(source, f) returns NewList(the mapped array)
MapOp(c, a) ==
  /\ pc \in {"build", "idle"}
  /\ call' = c
  /\ retval' = RetCol(ListCol(a, "fresh"))
  /\ pc' = "returned"
  /\ UNCHANGED <<others, arr, set, m, filters, sorts, distinct, threads, current,
                 workers, chan, ret, recv, filtered, processed, pfw, fcalls,
                 cb, evals>>

\* source is the raw array: NewList(src) is iterated
MapArray(f) ==
  MapOp(MkCall("MapArray", 0, <<>>, FALSE, <<>>, f), mapIterator(arr, 0, f))

\* source is the list container (an IIterable): src.Iterator() is iterated
MapList(f) ==
  MapOp(MkCall("MapList", 0, <<>>, FALSE, <<>>, f), mapIterator(arr, 0, f))

\* source is the set container NewSet(arr...) (an IIterable): its iterator
\* runs over ToArray()
MapSet(f) ==
  \E a \in MapOrders(Range(arr)) :
    MapOp(MkCall("MapSet", 0, <<>>, FALSE, a, f), mapIterator(a, 0, f))

\* source is an iterator of the list that stands at position idx
MapIterator(idx, f) ==
  MapOp(MkCall("MapIterator", idx, <<>>, FALSE, <<>>, f), mapIterator(arr, idx, f))

\* source is a pipeline: mapStream iterates from.ToCollection()
MapStream(f) ==
  \E a \in ColArrays(processed) :
    Returns(MkCall("MapStream", 0, <<>>, FALSE, a, f),
            RetCol(ListCol(mapIterator(a, 0, f), "fresh")))

\* ------------------------------------------------ entry points
\* the shapes of a source value, and the types a value of each shape has
Shapes == {"array", "list", "set", "iterator", "stream", "other"}

Implements(shape) ==
  IF shape = "array" THEN {"[]T"}
  ELSE IF shape = "list" THEN {"IIterable", "ICollection", "IList"}
  ELSE IF shape = "set" THEN {"IIterable", "ICollection", "ISet"}
  ELSE IF shape = "iterator" THEN {"IIterator"}
  ELSE IF shape = "stream" THEN {"IStream"}
  ELSE {}

Entries == {"From", "NewIterator", "Map", "MapNonComparable"}

\* the cases of the type switch of an entry point, in order; returns tells
\* whether the body of the case returns a result
CaseOf(t, r) == [type |-> t, returns |-> r]

Cases(entry) ==
  IF entry = "From" THEN <<CaseOf("[]T", TRUE), CaseOf("ICollection", TRUE)>>
  ELSE IF entry = "NewIterator" THEN <<CaseOf("[]T", TRUE), CaseOf("IList", TRUE)>>
  ELSE IF entry = "Map"
       THEN <<CaseOf("[]T", TRUE), CaseOf("IIterable", TRUE),
              CaseOf("IIterator", TRUE), CaseOf("IStream", TRUE)>>
  ELSE <<CaseOf("[]T", TRUE), CaseOf("IIterable", TRUE), CaseOf("IIterator", FALSE)>>

\* a type switch runs the first case whose type the value has; without a
\* return in that case, or without such a case, control reaches the panic
TypeSwitch(cases, shape) ==
  LET hits == {k \in 1..Len(cases) : cases[k].type \in Implements(shape)}
  IN  IF hits = {} THEN FALSE
      ELSE cases[CHOOSE k \in hits : \A j \in hits : k <= j].returns

\* entry(source) for a source of the given shape: a result, or a panic
Dispatch(entry, shape) ==
  /\ pc \in {"build", "idle"}
  /\ call' = MkCall(entry, 0, <<>>, FALSE, <<>>, shape)
  /\ retval' = IF TypeSwitch(Cases(entry), shape) THEN NoRet ELSE RetPanic
  /\ pc' = "returned"
  /\ UNCHANGED <<others, arr, set, m, filters, sorts, distinct, threads, current,
                 workers, chan, ret, recv, filtered, processed, pfw, fcalls,
                 cb, evals>>

\* ------------------------------------------------ the set container
\* set.AddFromIterator: ret = ret || c.Add(item): <<final map keys, ret>>
RECURSIVE SetAddFromIter(_, _, _)
SetAddFromIter(S, items, r) ==
  IF items = <<>> THEN <<S, r>>
  ELSE IF r THEN SetAddFromIter(S, Tail(items), r)
       ELSE SetAddFromIter(S \cup {Head(items)}, Tail(items), Head(items) \notin S)

\* set.RemoveFromIterator: ret = ret || c.Remove(item)
RECURSIVE SetRemoveFromIter(_, _, _)
SetRemoveFromIter(S, items, r) ==
  IF items = <<>> THEN <<S, r>>
  ELSE IF r THEN SetRemoveFromIter(S, Tail(items), r)
       ELSE SetRemoveFromIter(S \ {Head(items)}, Tail(items), Head(items) \in S)

SetOp(c, r, S) ==
  /\ m' = S
  /\ call' = c
  /\ retval' = r
  /\ UNCHANGED <<others, arr, set, filters, sorts, distinct, threads, current, pc,
                 workers, chan, ret, recv, filtered, processed, pfw, fcalls,
                 cb, evals>>

SetAdd(x) ==
  SetOp(MkCall("SetAdd", x, <<>>, FALSE, <<>>, "none"),
        RetBool(Cardinality(m \cup {x}) > Cardinality(m)), m \cup {x})

SetRemove(x) ==
  SetOp(MkCall("SetRemove", x, <<>>, FALSE, <<>>, "none"),
        RetBool(Cardinality(m \ {x}) < Cardinality(m)), m \ {x})

SetContains(x) ==
  SetOp(MkCall("SetContains", x, <<>>, FALSE, <<>>, "none"), RetBool(x \in m), m)

SetAddFromIterator(items) ==
  LET r == SetAddFromIter(m, ForEachRemaining(items, 0, 0), FALSE)
  IN  SetOp(MkCall("SetAddFromIterator", 0, <<>>, FALSE, items, "none"),
            RetBool(r[2]), r[1])

SetRemoveFromIterator(items) ==
  LET r == SetRemoveFromIter(m, ForEachRemaining(items, 0, 0), FALSE)
  IN  SetOp(MkCall("SetRemoveFromIterator", 0, <<>>, FALSE, items, "none"),
            RetBool(r[2]), r[1])

\* ------------------------------------------------ the map container
\* mapCollection[K, V]: m is the Go map, keys the auxiliary key list.
\* Keys and values are elements; a *KeyValuePair is the tuple <<key, value>>.
MaxKeys == 3

EmptyMap == [k \in {} |-> ZeroT]

Pairs == Elem \X Elem

PairItems == SeqsUpTo(Pairs, MaxItems)

\* col.m[key] = value
Store(mm, key, value) ==
  [k \in DOMAIN mm \cup {key} |-> IF k = key THEN value ELSE mm[k]]

\* delete(col.m, k)
Unstore(mm, key) == [k \in DOMAIN mm \ {key} |-> mm[k]]

\* the loop of Add: col.m[item.Key] = item.Value for every item
RECURSIVE StoreAll(_, _)
StoreAll(mm, items) ==
  IF items = <<>> THEN mm
  ELSE StoreAll(Store(mm, items[1][1], items[1][2]), Tail(items))

\* Keys(): the key list is returned as it is when it is as long as the map,
\* and is rebuilt by ranging over the map (in any order) otherwise
Keys(mm, ks) ==
  IF Cardinality(DOMAIN mm) = Len(ks) THEN {ks} ELSE MapOrders(DOMAIN mm)

\* Delete(k): false when the map did not shrink; otherwise the key list is
\* searched for k, and append(keys[:i], keys[i:]...) puts it back unchanged
Delete(mm, ks, k) ==
  <<Unstore(mm, k), ks, k \in DOMAIN mm /\ k \in Range(ks)>>

mapCollectionOp(c, r, mm, ks) ==
  /\ colM' = mm
  /\ keys' = ks
  /\ call' = c
  /\ retval' = r
  /\ UNCHANGED <<iterVars, concVars, arr, set, m, filters, sorts, distinct, threads,
                 current, pc, workers, chan, ret, recv, filtered, processed,
                 pfw, fcalls, cb, evals>>

mapCollectionSet(key, value) ==
  /\ Len(keys) < MaxKeys
  /\ mapCollectionOp(MkCall("Set", key, <<value>>, FALSE, <<>>, "none"),
                     RetBool(TRUE), Store(colM, key, value),
                     IF key \in DOMAIN colM THEN keys ELSE Append(keys, key))

mapCollectionAdd(items) ==
  mapCollectionOp(MkCall("Add", 0, <<>>, FALSE, items, "none"),
                  RetBool(Len(items) > 0), StoreAll(colM, items), keys)

mapCollectionDelete(k) ==
  LET d == Delete(colM, keys, k)
  IN mapCollectionOp(MkCall("Delete", k, <<>>, FALSE, <<>>, "none"),
                     RetBool(d[3]), d[1], d[2])

mapCollectionContainsKey(k) ==
  mapCollectionOp(MkCall("ContainsKey", k, <<>>, FALSE, <<>>, "none"),
                  RetBool(k \in DOMAIN colM), colM, keys)

mapCollectionKeys ==
  \E ks \in Keys(colM, keys) :
    mapCollectionOp(MkCall("Keys", 0, <<>>, FALSE, <<>>, "none"),
                    RetArr(ks), colM, ks)

\* Index(index): the key at the position in Keys(), looked up with Get
mapCollectionIndex(index) ==
  \E ks \in Keys(colM, keys) :
    mapCollectionOp(
      MkCall("Index", index, <<>>, FALSE, <<>>, "none"),
      IF index < 0 \/ Len(ks) <= index \/ ks[index + 1] \notin DOMAIN colM
      THEN RetBool(FALSE)
      ELSE [NoRet EXCEPT !.b = TRUE,
                         !.arr = <<ks[index + 1], colM[ks[index + 1]]>>],
      colM, ks)

\* RemoveAt(index): the guard is len(keys) >= index, so every index up to the
\* length is refused and keys[index] is read only past the end: a panic
mapCollectionRemoveAt(index) ==
  \E ks \in Keys(colM, keys) :
    mapCollectionOp(
      MkCall("RemoveAt", index, <<>>, FALSE, <<>>, "none"),
      IF index < 0 \/ Len(ks) >= index THEN RetBool(FALSE) ELSE RetPanic,
      colM, ks)

mapCollectionLen ==
  mapCollectionOp(MkCall("Len", 0, <<>>, FALSE, <<>>, "none"),
                  RetVal(Cardinality(DOMAIN colM)), colM, keys)

mapCollectionClear ==
  mapCollectionOp(MkCall("Clear", 0, <<>>, FALSE, <<>>, "none"),
                  NoRet, EmptyMap, <<>>)

\* ------------------------------------------------ the index based iterator
\* newArrayIterator(arr): an IndexBasedIterator over the array arr.
\* MoveNext(): <<the value returned, the index afterwards>>
MoveNextUnchecked(len, idx) == <<TRUE, idx + 1>>

MoveNext(len, idx) ==
  IF ~HasNext(len, idx) THEN <<FALSE, idx>> ELSE <<TRUE, idx + 1>>

\* Next(): the zero value when MoveNext() fails, Current() after the move
\* otherwise
IterNext(a, idx) ==
  LET mv == MoveNext(Len(a), idx)
  IN  IF ~mv[1] THEN <<ZeroT, mv[2]>> ELSE <<Current(a, mv[2]), mv[2]>>

\* the loop of ForEachRemaining, val being the loop variable and acc the
\* values handed to f so far: <<the values handed to f, the index at the end>>
RECURSIVE ForEachRemainingRun(_, _, _, _, _)
ForEachRemainingRun(a, idx, stop, val, acc) ==
  IF HasNext(Len(a), idx) /\ (stop <= 0 \/ stop >= idx)
  THEN LET nx == IterNext(a, idx)
       IN  ForEachRemainingRun(a, nx[2], stop, nx[1], Append(acc, val))
  ELSE <<acc, idx>>

IteratorOp(c, r, idx, stop, calls) ==
  /\ currentIndex' = idx
  /\ stopAt' = stop
  /\ call' = c
  /\ retval' = r
  /\ cb' = calls
  /\ UNCHANGED <<mapVars, concVars, arr, set, m, filters, sorts, distinct, threads,
                 current, pc, workers, chan, ret, recv, filtered, processed,
                 pfw, fcalls, evals>>

IteratorMoveNext ==
  LET mv == MoveNext(Len(arr), currentIndex)
  IN  IteratorOp(MkCall("MoveNext", 0, <<>>, FALSE, <<>>, "none"),
                 RetBool(mv[1]), mv[2], stopAt, <<>>)

IteratorNext ==
  LET nx == IterNext(arr, currentIndex)
  IN  IteratorOp(MkCall("Next", 0, <<>>, FALSE, <<>>, "none"),
                 RetVal(nx[1]), nx[2], stopAt, <<>>)

IteratorHasNext ==
  IteratorOp(MkCall("HasNext", 0, <<>>, FALSE, <<>>, "none"),
             RetBool(HasNext(Len(arr), currentIndex)), currentIndex, stopAt, <<>>)

IteratorCurrent ==
  IteratorOp(MkCall("Current", 0, <<>>, FALSE, <<>>, "none"),
             RetVal(Current(arr, currentIndex)), currentIndex, stopAt, <<>>)

IteratorPos ==
  IteratorOp(MkCall("Pos", 0, <<>>, FALSE, <<>>, "none"),
             RetVal(currentIndex), currentIndex, stopAt, <<>>)

\* Skip(n): no clamping; the model stops one past the end
IteratorSkip(n) ==
  /\ currentIndex + n <= MaxLen + 1
  /\ IteratorOp(MkCall("Skip", n, <<>>, FALSE, <<>>, "none"),
                NoRet, currentIndex + n, stopAt, <<>>)

IteratorStopAt(pos) ==
  IteratorOp(MkCall("StopAt", pos, <<>>, FALSE, <<>>, "none"),
             NoRet, currentIndex, pos, <<>>)

\* ForEachRemaining(f): cb is the values f was invoked on, in order
IteratorForEachRemaining ==
  LET run == ForEachRemainingRun(arr, currentIndex, stopAt,
                                 Current(arr, currentIndex), <<>>)
  IN  IteratorOp(MkCall("ForEachRemaining", currentIndex, <<>>, FALSE, <<>>, "none"),
                 NoRet, run[2], stopAt, run[1])

\* ------------------------------------------------ concurrent callers
\* Two goroutines on the source list: one inside Contains(x) or Distinct(),
\* one inside Add(x), RemoveAt(i) or Clear(). Neither CollectionBase nor
\* arrayCollection takes a lock, so the statements of the two calls interleave.
IdleReader == [pc |-> "idle", op |-> "none", x |-> 0, local |-> {}, b |-> FALSE]

IdleMutator == [pc |-> "idle", op |-> "none", x |-> 0]

RaceStep(rd, mu, a, s) ==
  /\ reader' = rd
  /\ mutator' = mu
  /\ arr' = a
  /\ set' = s
  /\ UNCHANGED <<mapVars, iterVars, pipelines, m, filters, sorts, distinct,
                 threads, current, pc, workers, chan, ret, recv, filtered,
                 processed, pfw, fcalls, call, retval, cb, evals>>

\* go l.Contains(x)
goContains(x) ==
  /\ reader.pc = "idle"
  /\ RaceStep([IdleReader EXCEPT !.pc = "check", !.op = "Contains", !.x = x],
              mutator, arr, set)

\* go l.Distinct()
goDistinct ==
  /\ reader.pc = "idle"
  /\ RaceStep([IdleReader EXCEPT !.pc = "check", !.op = "Distinct"],
              mutator, arr, set)

\* Distinct: if c.set != nil { return c.set }
DistinctCheck ==
  /\ reader.pc = "check"
  /\ RaceStep(IF set.valid
              THEN [reader EXCEPT !.pc = "returned", !.local = set.elems,
                                  !.b = reader.x \in set.elems]
              ELSE [reader EXCEPT !.pc = "build"],
              mutator, arr, set)

\* Distinct: set := NewSet(); set.Add(c.ToArray()...)
DistinctBuild ==
  /\ reader.pc = "build"
  /\ RaceStep([reader EXCEPT !.pc = "store", !.local = Range(arr)],
              mutator, arr, set)

\* Distinct: c.set = set; return set (and Contains looks x up in it)
DistinctStore ==
  /\ reader.pc = "store"
  /\ RaceStep([reader EXCEPT !.pc = "returned", !.b = reader.x \in reader.local],
              mutator, arr, MemoSet(reader.local))

\* go l.Add(x): c.arr = append(c.arr, x)
goAdd(x) ==
  /\ mutator.pc = "idle"
  /\ Len(arr) < MaxList
  /\ RaceStep(reader, [pc |-> "modified", op |-> "Add", x |-> x],
              Append(arr, x), set)

\* go l.RemoveAt(index): the range check and removeFast
goRemoveAt(index) ==
  /\ mutator.pc = "idle"
  /\ LET r == RemoveAt(arr, index, <<>>)
     IN  RaceStep(reader,
                  [pc |-> IF r[3] THEN "modified" ELSE "returned",
                   op |-> "RemoveAt", x |-> index],
                  r[1], set)

\* go l.Clear(): c.arr = nil, and the call returns
goClear ==
  /\ mutator.pc = "idle"
  /\ RaceStep(reader, [pc |-> "returned", op |-> "Clear", x |-> 0], <<>>, set)

\* Add / RemoveAt: c.modified(), and the call returns
mutatorModified ==
  /\ mutator.pc = "modified"
  /\ RaceStep(reader, [mutator EXCEPT !.pc = "returned"], arr, NilSet)

\* both calls have returned; the caller goes on with the next pair
Join ==
  /\ reader.pc = "returned"
  /\ mutator.pc = "returned"
  /\ RaceStep(IdleReader, IdleMutator, arr, set)

\* ------------------------------------------------ concurrent pipelines
\* Two streams built with FromCollection over the source list, each run by
\* its own goroutine through a single-threaded ToArray(): Stream.filter,
\* Stream.sort, ToArray. pipelines[p] holds the stream's stages, the position
\* of its goroutine and the locals of process; src is the source array at
\* the time the streams were built.
MaxStages == 1

MatchOf(fs, x) == \A k \in 1..Len(fs) : ApplyFilter(fs[k], x)

\* iterHandler(iterable, 0, Len) of a stream with filters fs and no Distinct
filterOf(fs) ==
  IF Len(fs) = 0 THEN ListCol(arr, "source")
  ELSE ListCol(SelectSeq(IterRange(arr, 0, 0, Len(arr)), LAMBDA x : MatchOf(fs, x)),
               "fresh")

\* the array a list container stands on, as it is now
ArrayOf(c) == IF c.ref = "fresh" THEN c.seq ELSE arr

PipelineStep(p, rec, a) ==
  /\ pipelines' = [pipelines EXCEPT ![p] = rec]
  /\ arr' = a
  /\ UNCHANGED <<mapVars, iterVars, reader, mutator, set, m, filters, sorts,
                 distinct, threads, current, pc, workers, chan, ret, recv,
                 filtered, processed, pfw, fcalls, call, retval, cb, evals>>

\* s1 := FromCollection(l) ...; s2 := FromCollection(l) ...; go s1.ToArray();
\* go s2.ToArray()
BuildPipelines(fs, ss) ==
  /\ pipelines = <<>>
  /\ pipelines' = [p \in 1..2 |->
                     [filters |-> fs[p], sorts |-> ss[p], pc |-> "filter",
                      iterable |-> NilCol, result |-> <<>>, src |-> arr]]
  /\ UNCHANGED <<mapVars, iterVars, reader, mutator, arr, set, m, filters,
                 sorts, distinct, threads, current, pc, workers, chan, ret,
                 recv, filtered, processed, pfw, fcalls, call, retval, cb,
                 evals>>

\* process: iterable = s.filter(iterable)
pipelineFilter(p) ==
  /\ p \in DOMAIN pipelines
  /\ pipelines[p].pc = "filter"
  /\ PipelineStep(p, [pipelines[p] EXCEPT !.pc = "sort",
                                          !.iterable = filterOf(pipelines[p].filters)],
                  arr)

\* process: iterable = s.sort(iterable); sort.Slice works on iterable.ToArray(),
\* which for the source list is its backing array
pipelineSort(p) ==
  /\ p \in DOMAIN pipelines
  /\ pipelines[p].pc = "sort"
  /\ LET c == pipelines[p].iterable
         ss == pipelines[p].sorts
     IN  IF Len(ss) = 0
         THEN PipelineStep(p, [pipelines[p] EXCEPT !.pc = "toArray"], arr)
         ELSE \E sorted \in SortSlice(ss, ArrayOf(c)) :
                PipelineStep(p,
                  [pipelines[p] EXCEPT
                     !.pc = "toArray",
                     !.iterable = ListCol(sorted, IF c.ref = "fresh" THEN "fresh"
                                                  ELSE "shared")],
                  IF c.ref = "fresh" THEN arr ELSE sorted)

\* ToArray: the array of the processed container, read by the caller
pipelineToArray(p) ==
  /\ p \in DOMAIN pipelines
  /\ pipelines[p].pc = "toArray"
  /\ PipelineStep(p, [pipelines[p] EXCEPT !.pc = "returned",
                                          !.result = ArrayOf(pipelines[p].iterable)],
                  arr)

\* ------------------------------------------------ specifications
Next ==
  \/ \E p \in Preds : Filter(p)
  \/ \E p \in Preds : Except(p)
  \/ \E c \in Cmps, d \in BOOLEAN : Sort(c, d)
  \/ Distinct
  \/ \E n \in 0..MaxThreads : SetThreads(n)
  \/ Call
  \/ process
  \/ parallelProcessHandler
  \/ \E i \in DOMAIN workers : worker(i)
  \/ collect
  \/ parallelProcess
  \/ ToArray
  \/ Count
  \/ \E i \in -1..MaxLen, d \in Defaults : At(i, d)
  \/ \E d \in Defaults : First(d)
  \/ \E d \in Defaults : Last(d)
  \/ ForEach
  \/ Return

Spec == Init /\ [][Next]_vars

\* a pipeline of filters whose terminal operation is ParallelForEach
NextPFE ==
  \/ \E p \in Preds : Filter(p)
  \/ \E p \in Preds : Except(p)
  \/ Distinct
  \/ \E n \in 0..MaxThreads : SetThreads(n)
  \/ Call
  \/ process
  \/ parallelProcessHandler
  \/ \E i \in DOMAIN workers : worker(i)
  \/ collect
  \/ parallelProcess
  \/ \E t \in 0..MaxThreads, k \in BOOLEAN : ParallelForEach(t, k)
  \/ \E w \in DOMAIN pfw : pfeIterator(w)
  \/ \E w \in DOMAIN pfw : pfeWorker(w)
  \/ pfeWait
  \/ Return

SpecPFE == Init /\ [][NextPFE]_vars

\* the Go scheduler runs every started goroutine: a worker of ParallelForEach
\* that can take a step eventually takes it (at most MaxLen workers start)
pfeFairness ==
  \A w \in 1..MaxLen : WF_vars(pfeIterator(w)) /\ WF_vars(pfeWorker(w))

SpecPFEFair == Init /\ [][NextPFE]_vars /\ pfeFairness

\* a single-threaded pipeline of Filter and Except stages read by ToArray
NextFilter ==
  \/ \E p \in Preds : Filter(p)
  \/ \E p \in Preds : Except(p)
  \/ Call
  \/ process
  \/ ToArray
  \/ Return

SpecFilter == Init /\ [][NextFilter]_vars

\* FromArray(array), or FromArray(array).Filter(pos), before any Sort
InitSort ==
  /\ arr \in SeqsUpTo(Elem, MaxLen)
  /\ filters \in {<<>>, <<[neg |-> FALSE, p |-> "pos"]>>}
  /\ sorts = <<>>
  /\ NoCalls

\* pipelines with sort stages, Distinct and any thread setting
NextSort ==
  \/ \E c \in Cmps, d \in BOOLEAN : Sort(c, d)
  \/ Distinct
  \/ \E n \in 0..MaxThreads : SetThreads(n)
  \/ Call
  \/ process
  \/ parallelProcessHandler
  \/ \E i \in DOMAIN workers : worker(i)
  \/ collect
  \/ parallelProcess
  \/ ToArray
  \/ Return

SpecSort == InitSort /\ [][NextSort]_vars

\* pipelines whose terminal operation hands a container to the caller, and
\* the caller adding to and removing from that container
NextResult ==
  \/ \E p \in Preds : Filter(p)
  \/ \E c \in Cmps, d \in BOOLEAN : Sort(c, d)
  \/ Distinct
  \/ \E n \in 0..MaxThreads : SetThreads(n)
  \/ Call
  \/ process
  \/ parallelProcessHandler
  \/ \E i \in DOMAIN workers : worker(i)
  \/ collect
  \/ parallelProcess
  \/ ToCollection
  \/ ToList
  \/ \E x \in Elem : ResultAdd(x)
  \/ \E i \in 0..(MaxList - 1) : ResultRemoveAt(i)
  \/ Return

SpecResult == Init /\ [][NextResult]_vars

\* pipelines whose terminal operation is an If* operation, and the Then /
\* Else calls on the helper it returns
NextIf ==
  \/ \E p \in Preds : Filter(p)
  \/ Distinct
  \/ \E n \in 0..MaxThreads : SetThreads(n)
  \/ Call
  \/ process
  \/ parallelProcessHandler
  \/ \E i \in DOMAIN workers : worker(i)
  \/ collect
  \/ parallelProcess
  \/ IfEmpty
  \/ \E p \in Preds : IfAnyMatch(p)
  \/ \E p \in Preds : IfAllMatch(p)
  \/ \E p \in Preds : IfNoneMatch(p)
  \/ Then
  \/ Else
  \/ Return

SpecIf == Init /\ [][NextIf]_vars

\* the container has not been wrapped in a pipeline with stages
NoStages == filters = <<>> /\ sorts = <<>> /\ ~distinct

\* Map over an array, a list, a set, an iterator and a pipeline
NextMap ==
  \/ \E p \in Preds : Filter(p)
  \/ \E c \in Cmps, d \in BOOLEAN : Sort(c, d)
  \/ Distinct
  \/ Call
  \/ process
  \/ NoStages /\ \E f \in Convs : MapArray(f)
  \/ NoStages /\ \E f \in Convs : MapList(f)
  \/ NoStages /\ \E f \in Convs : MapSet(f)
  \/ NoStages /\ \E i \in 0..MaxLen, f \in Convs : MapIterator(i, f)
  \/ \E f \in Convs : MapStream(f)
  \/ Return

SpecMap == Init /\ [][NextMap]_vars

\* the entry points called with sources of every shape
NextDispatch ==
  \/ \E e \in Entries, sh \in Shapes : Dispatch(e, sh)
  \/ \E x \in Elem : ListAdd(x)
  \/ Return

SpecDispatch == Init /\ [][NextDispatch]_vars

\* pipelines whose terminal operation is ToDistinct
NextDistinct ==
  \/ \E p \in Preds : Filter(p)
  \/ \E p \in Preds : Except(p)
  \/ \E c \in Cmps, d \in BOOLEAN : Sort(c, d)
  \/ \E n \in 0..MaxThreads : SetThreads(n)
  \/ DistinctCall
  \/ process
  \/ parallelProcessHandler
  \/ \E i \in DOMAIN workers : worker(i)
  \/ collect
  \/ parallelProcess
  \/ ToDistinct
  \/ Return

SpecDistinct == Init /\ [][NextDistinct]_vars

\* pipelines whose terminal operation is a matching operation or Count
NextMatch ==
  \/ \E p \in Preds : Filter(p)
  \/ Distinct
  \/ \E n \in 0..MaxThreads : SetThreads(n)
  \/ Call
  \/ process
  \/ parallelProcessHandler
  \/ \E i \in DOMAIN workers : worker(i)
  \/ collect
  \/ parallelProcess
  \/ Count
  \/ IsEmpty
  \/ \E p \in Preds : AnyMatch(p)
  \/ \E p \in Preds : AllMatch(p)
  \/ \E p \in Preds : NotAllMatch(p)
  \/ \E p \in Preds : NoneMatch(p)
  \/ \E v \in Elem : Contains(v)
  \/ Return

SpecMatch == Init /\ [][NextMatch]_vars

\* FromArray(array), or FromArray(array).Sort(value, true), before any filter
InitReuse ==
  /\ arr \in SeqsUpTo(Elem, MaxLen)
  /\ filters = <<>>
  /\ sorts \in {<<>>, <<[fn |-> "value", desc |-> TRUE]>>}
  /\ NoCalls

\* a pipeline that is used for several terminal calls, with elements added
\* to its source container between two calls
NextReuse ==
  \/ \E p \in Preds : Filter(p)
  \/ \E n \in 0..MaxThreads : SetThreads(n)
  \/ Call
  \/ process
  \/ parallelProcessHandler
  \/ \E i \in DOMAIN workers : worker(i)
  \/ collect
  \/ parallelProcess
  \/ ToArray
  \/ Count
  \/ \E i \in 0..MaxLen : At(i, <<>>)
  \/ First(<<>>)
  \/ Last(<<>>)
  \/ \E p \in Preds : AnyMatch(p)
  \/ \E p \in Preds : AllMatch(p)
  \/ ForEach
  \/ Return
  \/ pc = "idle" /\ \E x \in Elem : ListAdd(x)

SpecReuse == InitReuse /\ [][NextReuse]_vars

\* the operations of a list container and of a set container
KeepOrders == {<<>>, <<FALSE>>, <<TRUE>>}
Items == SeqsUpTo(Elem, MaxItems)

NextList ==
  \/ \E x \in Elem : ListAdd(x)
  \/ \E i \in -1..MaxList, k \in KeepOrders : ListRemoveAt(i, k)
  \/ \E p \in Preds, k \in KeepOrders : ListRemoveIf(p, k)
  \/ \E x \in Elem : ListRemove(x)
  \/ \E x \in Elem : ListContains(x)
  \/ ListClear
  \/ \E it \in Items : ListAddFromIterator(it)
  \/ \E it \in Items : ListRemoveFromIterator(it)
  \/ \E x \in Elem : SetAdd(x)
  \/ \E x \in Elem : SetRemove(x)
  \/ \E x \in Elem : SetContains(x)
  \/ \E it \in Items : SetAddFromIterator(it)
  \/ \E it \in Items : SetRemoveFromIterator(it)

SpecList == Init /\ [][NextList]_vars

\* the operations of a map-backed container made by NewMap()
InitMapCollection ==
  /\ arr = <<>>
  /\ filters = <<>>
  /\ sorts = <<>>
  /\ NoCalls

NextMapCollection ==
  \/ \E k \in Elem, v \in Elem : mapCollectionSet(k, v)
  \/ \E items \in PairItems : mapCollectionAdd(items)
  \/ \E k \in Elem : mapCollectionDelete(k)
  \/ \E k \in Elem : mapCollectionContainsKey(k)
  \/ mapCollectionKeys
  \/ \E i \in -1..(MaxKeys + 1) : mapCollectionIndex(i)
  \/ \E i \in -1..(MaxKeys + 1) : mapCollectionRemoveAt(i)
  \/ mapCollectionLen
  \/ mapCollectionClear

SpecMapCollection == InitMapCollection /\ [][NextMapCollection]_vars

\* an iterator over an array, advanced with MoveNext and Next and run to the
\* end with ForEachRemaining
NextIterator ==
  \/ IteratorMoveNext
  \/ IteratorNext
  \/ IteratorHasNext
  \/ IteratorCurrent
  \/ IteratorPos
  \/ IteratorForEachRemaining

SpecIterator == Init /\ [][NextIterator]_vars

\* the same with Skip and a stop bound
NextIteratorStop ==
  \/ NextIterator
  \/ \E n \in 0..MaxLen : IteratorSkip(n)
  \/ \E pos \in 0..MaxLen : IteratorStopAt(pos)

SpecIteratorStop == Init /\ [][NextIteratorStop]_vars

\* a reader and a mutator of the source list, running concurrently
NextRace ==
  \/ \E x \in Elem : goContains(x)
  \/ goDistinct
  \/ DistinctCheck
  \/ DistinctBuild
  \/ DistinctStore
  \/ \E x \in Elem : goAdd(x)
  \/ \E i \in -1..MaxList : goRemoveAt(i)
  \/ goClear
  \/ mutatorModified
  \/ Join

SpecRace == Init /\ [][NextRace]_vars

\* two pipelines over one source, executing concurrently
StageLists == SeqsUpTo(FilterStages, MaxStages) \X SeqsUpTo(FilterStages, MaxStages)

SortLists == SeqsUpTo(SortStages, MaxStages) \X SeqsUpTo(SortStages, MaxStages)

NextPipelines ==
  \/ \E fs \in StageLists, ss \in SortLists : BuildPipelines(fs, ss)
  \/ \E p \in 1..2 : pipelineFilter(p)
  \/ \E p \in 1..2 : pipelineSort(p)
  \/ \E p \in 1..2 : pipelineToArray(p)

SpecPipelines == Init /\ [][NextPipelines]_vars

\* ------------------------------------------------ properties
\* an element passes the registered stages: every Filter predicate holds
\* of it and every Except predicate fails on it
Passes(x) ==
  \A k \in 1..Len(filters) :
    IF filters[k].neg THEN ~Holds(filters[k].p, x) ELSE Holds(filters[k].p, x)

\* the elements of a container, in some order
ColSeq(c) == IF c.kind = "set" THEN CHOOSE a \in MapOrders(c.set) : TRUE ELSE c.seq

Reverse(s) == [k \in 1..Len(s) |-> s[Len(s) + 1 - k]]

\* what Contains(x) answers on a list with array a and memoised set s
ContainsIn(a, s, x) == x \in (IF s.valid THEN s.elems ELSE Range(a))

\* C1: with one worker, no Distinct and no sort stage, ToArray() is the
\* source restricted to the elements that satisfy every Filter predicate and
\* falsify every Except predicate, in source order and multiplicity.
C1_FilterExact ==
  (pc = "returned" /\ call.op = "ToArray" /\ threads = 1 /\ ~distinct /\ sorts = <<>>)
    => retval.arr = SelectSeq(arr, Passes)

C1_Witness ==
  /\ pc = "returned" /\ call.op = "ToArray"
  /\ threads = 1 /\ ~distinct /\ sorts = <<>>
  /\ Len(filters) = 2 /\ filters[1].neg # filters[2].neg
  /\ retval.arr # <<>> /\ Len(retval.arr) < Len(arr)

\* C2: no step of a terminal operation changes the source container's
\* array, whatever filters, sort stages, Distinct flag and thread setting
\* are registered.
C2_SourceUnchanged ==
  [][(pc \in {"process", "collect", "ready", "pfe", "returned"}) => (arr' = arr)]_vars

\* C3: with more than one worker the processed result of a pipeline of
\* filters (of any length) has the same elements with the same multiplicity
\* as the single-threaded execution of that pipeline.
C3_ParallelSameBag ==
  (pc = "ready" /\ threads # 1 /\ ~distinct)
    => SameBag(processed.seq, ColSeq(iterHandler(0, Len(arr))))

\* the answer of the k-th registered comparator, with its direction applied
Signed(k, x, y) ==
  IF sorts[k].desc THEN 0 - Cmp(sorts[k].fn, x, y) ELSE Cmp(sorts[k].fn, x, y)

C5_DistinctResult ==
  (pc = "ready" /\ distinct) =>
    LET s == ColSeq(processed)
    IN  /\ \A i, j \in 1..Len(s) : i < j => s[i] # s[j]
        /\ Range(s) = {x \in Range(arr) : Passes(x)}
        /\ sorts # <<>> => \A i, j \in 1..Len(s) : i < j => ~makeLessFunc(sorts, s[j], s[i])

\* C6: on a processed result that is a list, At(i, d) returns the element at
\* position i when 0 <= i < Count() and d when i is out of bounds; First(d)
\* and Last(d) return d when the result is empty and else the first / last
\* element.
C6_AtFirstLast ==
  (pc = "returned" /\ processed.kind = "list") =>
    LET s == processed.seq
    IN  /\ call.op = "At" =>
             IF 0 <= call.i /\ call.i < Len(s)
             THEN retval = RetVal(s[call.i + 1])
             ELSE call.d # <<>> => retval = RetVal(call.d[1])
        /\ call.op = "First" =>
             IF s # <<>> THEN retval = RetVal(s[1])
             ELSE call.d # <<>> => retval = RetVal(call.d[1])
        /\ call.op = "Last" =>
             IF s # <<>> THEN retval = RetVal(s[Len(s)])
             ELSE call.d # <<>> => retval = RetVal(call.d[1])

\* C7: Add(x) to a list that does not hold x makes Contains(x) true;
\* RemoveAt of the position of an element that occurs once makes Contains of
\* it false, with the fast and with the keepOrder policy.
C7_AddRemoveContains ==
  [][/\ \A x \in Elem :
          (ListAdd(x) /\ x \notin Range(arr)) => ContainsIn(arr', set', x)
     /\ \A i \in 0..(MaxList - 1), k \in KeepOrders :
          (ListRemoveAt(i, k) /\ i < Len(arr) /\ Occ(arr, Index(arr, i)) = 1)
            => ~ContainsIn(arr', set', Index(arr, i))]_vars

\* C8: AddFromIterator adds every element the iterator yields,
\* RemoveFromIterator leaves none of them, on a list and on a set; each
\* returns true iff the container changed.
C8_FromIterator ==
  [][\A it \in Items :
       /\ ListAddFromIterator(it) =>
            (arr' = arr \o it /\ (retval'.b <=> arr' # arr))
       /\ ListRemoveFromIterator(it) =>
            (Range(arr') \cap Range(it) = {} /\ (retval'.b <=> arr' # arr))
       /\ SetAddFromIterator(it) =>
            (m' = m \cup Range(it) /\ (retval'.b <=> m' # m))
       /\ SetRemoveFromIterator(it) =>
            (m' = m \ Range(it) /\ (retval'.b <=> m' # m))]_vars

\* C9: after RemoveIf(p, keepOrder) on a list no element satisfies p, the
\* elements that do not satisfy p are all still there (in their order when
\* keepOrder), and it returns true iff some element satisfied p.
C9_RemoveIf ==
  [][\A p \in Preds, k \in KeepOrders :
       ListRemoveIf(p, k) =>
         LET rest == SelectSeq(arr, LAMBDA x : ~Holds(p, x))
         IN  /\ SameBag(arr', rest)
             /\ k = <<TRUE>> => arr' = rest
             /\ retval'.b <=> (\E j \in 1..Len(arr) : Holds(p, arr[j]))]_vars

\* C10: when ParallelForEach without skipWait returns, every goroutine has
\* finished and the callback ran exactly once for every element of the
\* processed result.
C10_ParallelForEachOnce ==
  (pc = "returned" /\ call.op = "ParallelForEach" /\ ~call.flag) =>
    /\ \A w \in DOMAIN pfw : pfw[w].st = "done"
    /\ \A v \in Elem : fcalls[v] = Occ(ColSeq(processed), v)

\* the container the goroutines of the last ParallelForEach iterate
PfeResult == IF pfw = <<>> THEN NilCol ELSE pfw[1].col

\* C11: after ParallelForEach with skipWait = true has returned, under fair
\* scheduling of the workers a state is reached in which every worker has
\* finished and the callback ran exactly once for every element of the
\* processed result.
C11_SkipWaitEventually ==
  (pc = "returned" /\ call.op = "ParallelForEach" /\ call.flag)
    ~> (/\ \A w \in DOMAIN pfw : pfw[w].st = "done"
        /\ \A v \in Elem : fcalls[v] = Occ(ColSeq(PfeResult), v))

\* the worker count a request for n threads stands for
Effective(n) == IF n <= 0 THEN NumCPU ELSE n

\* C12: the number of goroutines started by the parallel filter and by
\* ParallelForEach is the least of the effective thread count, the number of
\* CPUs and the number of elements.
C12_WorkerCap ==
  /\ pc = "collect" =>
        Len(workers) = Min(Min(Effective(threads), NumCPU), Len(arr))
  /\ pc = "pfe" =>
        Len(pfw) = Min(Min(Effective(call.i), NumCPU), ColLen(processed))

\* C13: adding to or removing from the container a terminal call returned
\* leaves the contents of the source container unchanged.
C13_FreshResult ==
  [][((\E x \in Elem : ResultAdd(x)) \/ (\E i \in 0..(MaxList - 1) : ResultRemoveAt(i)))
       => (arr' = arr)]_vars

\* what a stream over container c yields: nothing when c is nil
StreamYields(c) == IF c.kind = "nil" THEN {<<>>} ELSE ColArrays(c)

\* what the matching operation named by an If* operation answers on array a
IfCondition(op, p, a) ==
  IF op = "IfEmpty" THEN a = <<>>
  ELSE IF op = "IfAnyMatch" THEN \E k \in 1..Len(a) : Holds(p, a[k])
  ELSE IF op = "IfAllMatch" THEN \A k \in 1..Len(a) : Holds(p, a[k])
  ELSE \A k \in 1..Len(a) : ~Holds(p, a[k])

\* C14: when an If* operation returns, the stream in the helper yields
\* exactly the elements of the processed result of the pipeline, and the
\* helper's condition is what IsEmpty / AnyMatch / AllMatch / NoneMatch answer
\* on that result - under every thread setting.
C14_IfSnapshot ==
  (pc = "returned" /\ call.op \in IfOps) =>
    /\ \A a \in StreamYields(retval.col) : SameBag(a, ColSeq(processed))
    /\ retval.b = IfCondition(call.op, call.p, ColSeq(processed))

\* C15: on the helper of an If* operation with condition b, every Then call
\* invoked its callback iff b and every Else call iff not b (so at most once
\* per call), the chain Then(f).Else(g) invoked exactly one of f and g, and a
\* Then / Else call leaves the helper it returns as it was.
C15_ThenElse ==
  /\ [](pc = "returned" /\ call.op \in IfOps =>
          /\ \A k \in 1..Len(cb) : cb[k].ran = ((cb[k].mth = "Then") = retval.b)
          /\ (Len(cb) >= 2 /\ cb[1].mth = "Then" /\ cb[2].mth = "Else")
               => (cb[1].ran # cb[2].ran))
  /\ [][(Then \/ Else) => (retval' = retval)]_vars

C15_Witness ==
  /\ pc = "returned" /\ call.op \in IfOps
  /\ Len(cb) = 2 /\ cb[1].mth = "Then" /\ cb[2].mth = "Else"
  /\ ~cb[1].ran /\ cb[2].ran

\* f applied to every element of a, in order
Mapped(f, a) == [k \in 1..Len(a) |-> Conv(f, a[k])]

\* the elements an iterator of a that stands at idx still yields
Remaining(a, idx) == SubSeq(a, idx + 1, Len(a))

\* C16: Map returns a new list that holds f of every element the source
\* yields, in iteration order: the array or list from its start, the
\* iterator from its position, the set in the order it was iterated, the
\* pipeline's processed result.
C16_Map ==
  pc = "returned" =>
    /\ call.op \in {"MapArray", "MapList"} =>
          retval.col = ListCol(Mapped(call.p, arr), "fresh")
    /\ call.op = "MapIterator" =>
          retval.col = ListCol(Mapped(call.p, Remaining(arr, call.i)), "fresh")
    /\ call.op = "MapSet" =>
          /\ Range(call.items) = Range(arr)
          /\ Len(call.items) = Cardinality(Range(arr))
          /\ retval.col = ListCol(Mapped(call.p, call.items), "fresh")
    /\ call.op = "MapStream" =>
          /\ call.items \in ColArrays(processed)
          /\ retval.col = ListCol(Mapped(call.p, call.items), "fresh")

C16_Witness ==
  /\ pc = "returned" /\ call.op = "MapStream" /\ call.p = "succ"
  /\ filters # <<>> /\ sorts # <<>>
  /\ Len(arr) = 2 /\ Len(retval.col.seq) = 1 /\ retval.col.seq[1] # arr[1]

\* the source types the documentation of an entry point lists
Documented(entry) ==
  IF entry = "From" THEN {"[]T", "IIterable"}
  ELSE IF entry = "Map"
       THEN {"[]T", "IIterable", "ICollection", "IList", "IIterator", "IStream"}
  ELSE {"[]T", "IIterable", "ICollection", "IList", "IIterator"}

\* C17: From, Map, MapNonComparable and NewIterator return a result for a
\* source that has one of the types their documentation lists, and panic for
\* every other source.
C17_Dispatch ==
  (pc = "returned" /\ call.op \in Entries) =>
    (retval.panic <=> (Implements(call.p) \cap Documented(call.op) = {}))

C19_Matches ==
  pc = "returned" =>
    LET R == ColSeq(processed)
        some == \E k \in 1..Len(R) : Holds(call.p, R[k])
        every == \A k \in 1..Len(R) : Holds(call.p, R[k])
    IN  /\ call.op = "AnyMatch" => (retval.b <=> some)
        /\ call.op = "AllMatch" => (retval.b <=> every)
        /\ call.op = "NoneMatch" => (retval.b <=> ~some)
        /\ call.op = "NotAllMatch" => (retval.b <=> ~every)
        /\ call.op = "Contains" => (retval.b <=> call.i \in Range(R))
        /\ call.op = "IsEmpty" => (retval.b <=> Len(R) = 0)
        /\ call.op = "Count" => retval.val = Len(R)

C19_Witness ==
  /\ pc = "returned" /\ call.op = "AllMatch" /\ call.p = "odd"
  /\ ~retval.b
  /\ processed.kind = "list" /\ Len(processed.seq) = 2
  /\ Holds("odd", processed.seq[1]) /\ ~Holds("odd", processed.seq[2])

\* the orders in which n workers can deliver their results
Perms(n) == {f \in [1..n -> 1..n] : Range(f) = 1..n}

\* what the receive loop of the parallel filter can collect when the workers
\* deliver in the given order, from the k-th delivery on
RECURSIVE Collected(_, _, _)
Collected(order, k, sz) ==
  IF k > Len(order) THEN {<<>>}
  ELSE {a \o t : a \in ForEachOrders(iterHandler((order[k] - 1) * sz, order[k] * sz)),
                 t \in Collected(order, k + 1, sz)}

\* the containers process() of a newly built pipeline with the registered
\* stages and thread setting can return over the source as it is now
FreshProcessed ==
  IF threads = 1 THEN {r[1] : r \in SortResults(iterHandler(0, Len(arr)))}
  ELSE LET cores == Min(getCores(<<threads>>), Len(arr))
           rets == UNION {Collected(o, 1, sliceSize(Len(arr), cores)) : o \in Perms(cores)}
       IN  UNION {{r[1] : r \in SortResults(ListCol(c, "fresh"))} : c \in rets}

C21_Delete ==
  [][\A k \in Elem :
       mapCollectionDelete(k) =>
         /\ retval'.b <=> k \in DOMAIN colM
         /\ k \notin DOMAIN colM']_vars

\* C22: RemoveAt(i, keepOrder = true) with 0 <= i < Len() on a list returns
\* true and leaves the previous sequence with position i deleted.
C22_RemoveAtKeepOrder ==
  [][\A i \in 0..(MaxList - 1) :
       (ListRemoveAt(i, <<TRUE>>) /\ i < Len(arr)) =>
         (retval'.b /\ arr' = RemoveIdx(arr, i + 1))]_vars

\* the pairs of a map-backed container, as a set
PairsOf(mm) == {<<k, mm[k]>> : k \in DOMAIN mm}

\* RemoveAt with the fast policy on a list: in range it returns true and
\* removes one occurrence of the element at i, out of range it returns false
\* and changes nothing
ListRemoveAtFast(i, k) ==
  ListRemoveAt(i, k) =>
    IF 0 <= i /\ i < Len(arr)
    THEN /\ retval'.b
         /\ Len(arr') = Len(arr) - 1
         /\ SameBag(arr', RemoveIdx(arr, i + 1))
    ELSE ~retval'.b /\ ~retval'.panic /\ arr' = arr

\* the same on a map-backed container, whose Len() is the size of the map
MapRemoveAtFast(i) ==
  mapCollectionRemoveAt(i) =>
    IF 0 <= i /\ i < Cardinality(DOMAIN colM)
    THEN /\ retval'.b
         /\ \E k \in DOMAIN colM : PairsOf(colM') = PairsOf(colM) \ {<<k, colM[k]>>}
    ELSE ~retval'.b /\ ~retval'.panic /\ colM' = colM

\* C23: RemoveAt(i) with the fast policy on a list and on a map-backed
\* container: with 0 <= i < Len() it returns true, Len() drops by one and the
\* rest is the old contents without the element at i; otherwise it returns
\* false, does not abort and changes nothing.
C23_RemoveAtFast ==
  [][/\ \A i \in -1..MaxList, k \in {<<>>, <<FALSE>>} : ListRemoveAtFast(i, k)
     /\ \A i \in -1..(MaxKeys + 1) : MapRemoveAtFast(i)]_vars

\* the list half of C23 alone
C23_ListOnly ==
  [][\A i \in -1..MaxList, k \in {<<>>, <<FALSE>>} : ListRemoveAtFast(i, k)]_vars

\* C24: the memoised uniqueness cache of a list is never stale: when it is
\* set it equals the set of the values in ToArray(), so Distinct() returns
\* that set and Contains(x) is true iff x is in the container.
C24_CacheFresh ==
  /\ set.valid => set.elems = Range(arr)
  /\ ListDistinctSet.elems = Range(arr)
  /\ \A x \in Elem : ContainsIn(arr, set, x) <=> x \in Range(arr)

\* C25: on a map-backed container Keys() returns exactly the keys in the
\* map, each once, and Index(i) reports exists = true with a pair whose key
\* is in the map for 0 <= i < Len() and exists = false for every other i.
C25_KeysIndex ==
  [][/\ mapCollectionKeys =>
          /\ Range(retval'.arr) = DOMAIN colM
          /\ Len(retval'.arr) = Cardinality(DOMAIN colM)
     /\ \A i \in -1..(MaxKeys + 1) :
          mapCollectionIndex(i) =>
            IF 0 <= i /\ i < Cardinality(DOMAIN colM)
            THEN retval'.b /\ retval'.arr[1] \in DOMAIN colM
            ELSE ~retval'.b]_vars

\* the source positions in the index range handed to goroutine i, clipped to
\* the source
WorkerRange(i) ==
  LET sz == sliceSize(Len(arr), Len(workers))
  IN  {p \in 0..(Len(arr) - 1) : (i - 1) * sz <= p /\ p < i * sz}

\* the ranges handed to the workers partition the source positions, and no
\* worker is started on an empty source
RangesPartition ==
  /\ \A p \in 0..(Len(arr) - 1) :
       Cardinality({i \in DOMAIN workers : p \in WorkerRange(i)}) = 1
  /\ \A i \in DOMAIN workers :
       \A p, q \in WorkerRange(i) : \A r \in p..q : r \in WorkerRange(i)
  /\ Len(arr) = 0 => workers = <<>>

\* the elements of the local results on the channel, one after another
RECURSIVE Flatten(_)
Flatten(ch) == IF ch = <<>> THEN <<>> ELSE Head(ch).seq \o Flatten(Tail(ch))

\* C26: the index ranges handed to the workers are contiguous, pairwise
\* disjoint and cover [0, n), so that each source position is processed by
\* exactly one worker: the local results together hold every source element
\* that passes the filters once per position; on an empty source no worker
\* is started.
C26_Partition ==
  pc = "collect" =>
    /\ RangesPartition
    /\ (~distinct /\ recv = 0 /\ \A i \in DOMAIN workers : workers[i] = "sent")
         => SameBag(Flatten(chan), SelectSeq(arr, Passes))

\* the arithmetic half of C26 alone
C26_RangesOnly == pc = "collect" => RangesPartition

\* C27: an iterator over n elements that starts at position 0 and is moved
\* with MoveNext and Next stays within [0, n]; MoveNext returns true and
\* advances by one iff HasNext() was true; HasNext() is true iff the position
\* is below n, and then Current() is the element at the position; the loop
\* "for x := Current(); HasNext(); x = Next()" from position 0 visits the
\* elements at 0..n-1 once each, in order, and stops at n.
C27_Iterator ==
  [][/\ 0 <= currentIndex' /\ currentIndex' <= Len(arr')
     /\ IteratorMoveNext =>
          /\ retval'.b <=> HasNext(Len(arr), currentIndex)
          /\ currentIndex' = IF retval'.b THEN currentIndex + 1 ELSE currentIndex
     /\ IteratorNext =>
          /\ currentIndex' = IF currentIndex < Len(arr) THEN currentIndex + 1
                             ELSE currentIndex
          /\ retval'.val = IF currentIndex + 1 < Len(arr) THEN arr[currentIndex + 2]
                           ELSE ZeroT
     /\ IteratorHasNext => (retval'.b <=> currentIndex < Len(arr))
     /\ (IteratorCurrent /\ currentIndex < Len(arr))
          => retval'.val = arr[currentIndex + 1]
     /\ IteratorForEachRemaining =>
          /\ cb' = SubSeq(arr, currentIndex + 1, Len(arr))
          /\ currentIndex' = Len(arr)]_vars

\* the loop ran from position 0 over a source of MaxLen elements
C27_Witness ==
  /\ Len(arr) = MaxLen
  /\ currentIndex = MaxLen
  /\ call.op = "ForEachRemaining" /\ call.i = 0 /\ cb = arr

\* C28: with StopAt(p), 0 < p <= Len, on an iterator at index i <= p,
\* ForEachRemaining(f) invokes f on the elements at i..p-1 in order and stops
\* at Pos() = p without invoking f on the element at p; with no stop bound
\* it invokes f on every element from i to Len-1 once.
C28_StopAt ==
  [][IteratorForEachRemaining =>
       IF 0 < stopAt /\ stopAt <= Len(arr) /\ currentIndex <= stopAt
       THEN /\ cb' = SubSeq(arr, currentIndex + 1, stopAt)
            /\ currentIndex' = stopAt
       ELSE stopAt = 0 => cb' = SubSeq(arr, currentIndex + 1, Len(arr))]_vars

\* the reader is between its look at the cache and its return
Reading == reader.pc \in {"build", "store"}

\* the mutator is between its write to the array and its return
Invalidating == mutator.pc = "modified"

\* what the claim promises once both calls have returned
CacheSettled ==
  /\ set.valid => set.elems = Range(arr)
  /\ mutator.op = "Add" => ContainsIn(arr, set, mutator.x)

\* C29: a Contains/Distinct call and a concurrent Add, RemoveAt or Clear on
\* the same list exclude each other on the cache, so once both have returned
\* the cache is absent or equal to the set of the current contents, and a
\* later Contains(x) of an added x returns true.
C29_CacheExclusion ==
  /\ ~(Reading /\ Invalidating)
  /\ (reader.pc = "returned" /\ mutator.pc = "returned") => CacheSettled

\* the outcome half of C29 for the mutator Add alone
C29_AddOutcome ==
  (reader.pc = "returned" /\ mutator.pc = "returned" /\ mutator.op = "Add")
    => CacheSettled

\* what the pipeline with filters fs and sort stages ss can return when it
\* executes alone over the source array a
AloneResults(fs, ss, a) ==
  LET kept == SelectSeq(a, LAMBDA x : MatchOf(fs, x))
  IN  IF Len(ss) = 0 THEN {kept} ELSE SortSlice(ss, kept)

\* C30: two pipelines over the same source that execute their terminal
\* calls concurrently each obtain a result they could obtain executing
\* alone, and neither execution writes to the source's backing array.
C30_ConcurrentPipelines ==
  /\ \A p \in DOMAIN pipelines :
       /\ arr = pipelines[p].src
       /\ pipelines[p].pc = "returned" =>
            pipelines[p].result \in AloneResults(pipelines[p].filters,
                                                 pipelines[p].sorts,
                                                 pipelines[p].src)

\* the result half of C30 alone
C30_ResultsOnly ==
  \A p \in DOMAIN pipelines :
    pipelines[p].pc = "returned" =>
      pipelines[p].result \in AloneResults(pipelines[p].filters,
                                           pipelines[p].sorts,
                                           pipelines[p].src)
====
